---- MODULE Spec2Model ----
(***************************************************************************)
(* A model of exa-go (exa.go): the Client, its five operations (Search,    *)
(* FindSimilar, GetContents, Answer, Context) and the dispatcher Client.do.*)
(* JSON texts are modelled by the JSON values they denote, Go values by    *)
(* tagged records, encoding/json by operators that compute what Marshal    *)
(* and Decoder.Decode compute, and net/http's executor by environment      *)
(* actions that deliver a response or an error to the waiting call.        *)
(***************************************************************************)
EXTENDS Integers, Sequences, FiniteSets, TLC

VARIABLES client, call, ctx, pc, req, doRet, ret, nDo

vars == <<client, call, ctx, pc, req, doRet, ret, nDo>>

(* ------------------------------ bounds -------------------------------- *)

\* Number of callers sharing one Client in the concurrent specification.
NumCalls == 2
\* Largest number of option fields a caller sets in one options struct.
MaxSet == 2

Calls == 1..NumCalls

(* ---------------------------- JSON values ----------------------------- *)

JNull == [t |-> "null"]
JStr(s) == [t |-> "str", s |-> s]
JNum(n) == [t |-> "num", n |-> n]
JBool(b) == [t |-> "bool", b |-> b]
JArr(a) == [t |-> "arr", a |-> a]
JObj(o) == [t |-> "obj", o |-> o]
EmptyObj == JObj(<<>>)

(* ----------------------------- Go values ------------------------------ *)

\* nil (pointer, interface), a non-nil pointer, slices, interface values.
GoNil == [go |-> "nil"]
Ptr(v) == [go |-> "ptr", v |-> v]
NilSlice == [nilslice |-> TRUE, e |-> <<>>]
GoSlice(e) == [nilslice |-> FALSE, e |-> e]
IfaceString(s) == [go |-> "string", s |-> s]
IfaceInt(n) == [go |-> "int", n |-> n]
IfaceChan == [go |-> "chan"]

\* A struct field: Go name, JSON key, omitempty flag, kind of its type.
F(name, key, omit, kind) == [name |-> name, key |-> key, omit |-> omit, kind |-> kind]

TextOptionsFields ==
    << F("IncludeHtmlTags", "includeHtmlTags", TRUE, "bool"),
       F("MaxCharacters", "maxCharacters", TRUE, "int") >>

HighlightOptionsFields ==
    << F("NumSentences", "numSentences", TRUE, "int"),
       F("HighlightsPerURL", "highlightsPerUrl", TRUE, "int"),
       F("Query", "query", TRUE, "string") >>

SummaryOptionsFields == << F("Query", "query", TRUE, "string") >>

ContentsOptionsFields ==
    << F("Text", "text", TRUE, "*TextOptions"),
       F("Highlights", "highlights", TRUE, "*HighlightOptions"),
       F("Summary", "summary", TRUE, "*SummaryOptions"),
       F("LiveCrawl", "livecrawl", TRUE, "string") >>

SearchOptionsFields ==
    << F("NumResults", "numResults", TRUE, "int"),
       F("IncludeDomains", "includeDomains", TRUE, "[]string"),
       F("ExcludeDomains", "excludeDomains", TRUE, "[]string"),
       F("StartCrawlDate", "startCrawlDate", TRUE, "string"),
       F("EndCrawlDate", "endCrawlDate", TRUE, "string"),
       F("StartPublishedDate", "startPublishedDate", TRUE, "string"),
       F("EndPublishedDate", "endPublishedDate", TRUE, "string"),
       F("IncludeText", "includeText", TRUE, "[]string"),
       F("ExcludeText", "excludeText", TRUE, "[]string"),
       F("Contents", "contents", TRUE, "*ContentsOptions"),
       F("UseAutoprompt", "useAutoprompt", TRUE, "*bool"),
       F("Type", "type", TRUE, "string"),
       F("Category", "category", TRUE, "string") >>

\* searchRequest embeds SearchOptions: its fields are promoted beside query.
searchRequestFields == << F("Query", "query", FALSE, "string") >> \o SearchOptionsFields

FindSimilarOptionsFields ==
    << F("NumResults", "numResults", TRUE, "int"),
       F("IncludeDomains", "includeDomains", TRUE, "[]string"),
       F("ExcludeDomains", "excludeDomains", TRUE, "[]string"),
       F("StartCrawlDate", "startCrawlDate", TRUE, "string"),
       F("EndCrawlDate", "endCrawlDate", TRUE, "string"),
       F("StartPublishedDate", "startPublishedDate", TRUE, "string"),
       F("EndPublishedDate", "endPublishedDate", TRUE, "string"),
       F("Contents", "contents", TRUE, "*ContentsOptions") >>

findSimilarRequestFields == << F("URL", "url", FALSE, "string") >> \o FindSimilarOptionsFields

GetContentsOptionsFields ==
    << F("Text", "text", TRUE, "*TextOptions"),
       F("Highlights", "highlights", TRUE, "*HighlightOptions"),
       F("Summary", "summary", TRUE, "*SummaryOptions"),
       F("LiveCrawl", "livecrawl", TRUE, "string") >>

getContentsRequestFields == << F("IDs", "ids", FALSE, "[]string") >> \o GetContentsOptionsFields

AnswerOptionsFields ==
    << F("Query", "query", FALSE, "string"),
       F("Text", "text", TRUE, "bool") >>

ContextOptionsFields ==
    << F("Query", "query", FALSE, "string"),
       F("TokensNum", "tokensNum", TRUE, "interface{}") >>

\* The fields of the struct a pointer kind points to.
PointeeFields(kind) ==
    CASE kind = "*TextOptions" -> TextOptionsFields
      [] kind = "*HighlightOptions" -> HighlightOptionsFields
      [] kind = "*SummaryOptions" -> SummaryOptionsFields
      [] kind = "*ContentsOptions" -> ContentsOptionsFields

\* The zero value of a field kind.
ZeroOf(kind) ==
    CASE kind = "int" -> 0
      [] kind = "string" -> ""
      [] kind = "bool" -> FALSE
      [] kind = "float64" -> 0
      [] kind = "[]string" -> NilSlice
      [] kind = "[]Result" -> NilSlice
      [] OTHER -> GoNil

\* The zero value of a struct with the given fields.
ZeroStruct(fields) ==
    [n \in {fields[i].name : i \in 1..Len(fields)} |->
        ZeroOf(fields[CHOOSE i \in 1..Len(fields) : fields[i].name = n].kind)]

(* ------------------------- encoding/json: Marshal --------------------- *)

\* IsEmptyValue of a tag set in which the pointer and interface fields lack
\* omitempty.
IsEmptyValueKeepPointers(kind, v) ==
    CASE kind = "int" -> v = 0
      [] kind = "string" -> v = ""
      [] kind = "bool" -> v = FALSE
      [] kind = "[]string" -> Len(v.e) = 0
      [] OTHER -> FALSE

\* omitempty leaves out false, 0, the empty string, a nil pointer or
\* interface, and a slice of length zero.
IsEmptyValue(kind, v) ==
    CASE kind = "int" -> v = 0
      [] kind = "string" -> v = ""
      [] kind = "bool" -> v = FALSE
      [] kind = "[]string" -> Len(v.e) = 0
      [] OTHER -> v = GoNil

RECURSIVE MarshalStruct(_, _)
RECURSIVE MarshalValue(_, _)

\* json.Marshal of a struct: [ok, json]; ok is FALSE for an unsupported type.
MarshalStruct(fields, rec) ==
    LET inc == {i \in 1..Len(fields) :
                  ~(fields[i].omit /\ IsEmptyValue(fields[i].kind, rec[fields[i].name]))}
        enc == [i \in inc |-> MarshalValue(fields[i].kind, rec[fields[i].name])]
    IN  [ok |-> \A i \in inc : enc[i].ok,
         json |-> JObj([k \in {fields[i].key : i \in inc} |->
                          enc[CHOOSE i \in inc : fields[i].key = k].json])]

MarshalValue(kind, v) ==
    CASE kind = "int" -> [ok |-> TRUE, json |-> JNum(v)]
      [] kind = "string" -> [ok |-> TRUE, json |-> JStr(v)]
      [] kind = "bool" -> [ok |-> TRUE, json |-> JBool(v)]
      [] kind = "[]string" ->
           [ok |-> TRUE,
            json |-> IF v.nilslice THEN JNull
                     ELSE JArr([i \in 1..Len(v.e) |-> JStr(v.e[i])])]
      [] kind = "*bool" ->
           [ok |-> TRUE, json |-> IF v = GoNil THEN JNull ELSE JBool(v.v)]
      [] kind = "interface{}" ->
           CASE v.go = "nil" -> [ok |-> TRUE, json |-> JNull]
             [] v.go = "string" -> [ok |-> TRUE, json |-> JStr(v.s)]
             [] v.go = "int" -> [ok |-> TRUE, json |-> JNum(v.n)]
             [] OTHER -> [ok |-> FALSE, json |-> JNull]
      [] OTHER ->
           IF v = GoNil THEN [ok |-> TRUE, json |-> JNull]
           ELSE MarshalStruct(PointeeFields(kind), v.v)

(* ---------------------- encoding/json: Decoder.Decode ----------------- *)

\* A struct field to decode into: Go name, JSON key, kind of its type.
D(name, key, kind) == [name |-> name, key |-> key, kind |-> kind]

ResultFields ==
    << D("ID", "id", "string"),
       D("URL", "url", "string"),
       D("Title", "title", "string"),
       D("Author", "author", "string"),
       D("PublishedDate", "publishedDate", "string"),
       D("Text", "text", "string"),
       D("Highlights", "highlights", "[]string"),
       D("Summary", "summary", "string"),
       D("Score", "score", "float64"),
       D("Image", "image", "string"),
       D("Favicon", "favicon", "string") >>

SearchResponseFields ==
    << D("Results", "results", "[]Result"),
       D("RequestID", "requestId", "string") >>

GetContentsResponseFields ==
    << D("Results", "results", "[]Result"),
       D("RequestID", "requestId", "string") >>

answerResponseFields ==
    << D("Answer", "answer", "string"),
       D("Citations", "citations", "[]Result"),
       D("RequestID", "requestId", "string") >>

ContextResponseFields ==
    << D("Response", "response", "string"),
       D("RequestID", "requestId", "string"),
       D("ResultsCount", "resultsCount", "int"),
       D("SearchTime", "searchTime", "float64"),
       D("OutputTokens", "outputTokens", "int"),
       D("CostDollars", "costDollars", "interface{}") >>

errRespFields == << D("Message", "message", "string") >>

\* Keys of the sample bodies that differ from a field's key only by case.
FoldTable == [Message |-> "message", RequestID |-> "requestid", requestId |-> "requestid"]
Fold(k) == IF k \in DOMAIN FoldTable THEN FoldTable[k] ELSE k

\* The object key a field is read from: the exact key, else one that
\* matches case-insensitively; "" when the object has neither.
FindKey(o, key) ==
    IF key \in DOMAIN o THEN key
    ELSE IF \E k \in DOMAIN o : Fold(k) = Fold(key)
         THEN CHOOSE k \in DOMAIN o : Fold(k) = Fold(key)
         ELSE ""

RECURSIVE DecodeStruct(_, _)
RECURSIVE DecodeValue(_, _)

\* Unmarshal of JSON value j into a zero value of the kind: [ok, v].
\* null leaves the destination as it is; a value of the wrong JSON type
\* is an UnmarshalTypeError (ok = FALSE).
DecodeValue(kind, j) ==
    IF j.t = "null" THEN [ok |-> TRUE, v |-> ZeroOf(kind)]
    ELSE CASE kind = "string" ->
                IF j.t = "str" THEN [ok |-> TRUE, v |-> j.s]
                ELSE [ok |-> FALSE, v |-> ZeroOf(kind)]
           [] kind \in {"int", "float64"} ->
                IF j.t = "num" THEN [ok |-> TRUE, v |-> j.n]
                ELSE [ok |-> FALSE, v |-> ZeroOf(kind)]
           [] kind = "interface{}" -> [ok |-> TRUE, v |-> j]
           [] kind = "[]string" ->
                IF j.t = "arr"
                THEN LET d == [i \in 1..Len(j.a) |-> DecodeValue("string", j.a[i])]
                     IN  [ok |-> \A i \in 1..Len(j.a) : d[i].ok,
                          v |-> GoSlice([i \in 1..Len(j.a) |-> d[i].v])]
                ELSE [ok |-> FALSE, v |-> ZeroOf(kind)]
           [] kind = "[]Result" ->
                IF j.t = "arr"
                THEN LET d == [i \in 1..Len(j.a) |-> DecodeStruct(ResultFields, j.a[i])]
                     IN  [ok |-> \A i \in 1..Len(j.a) : d[i].ok,
                          v |-> GoSlice([i \in 1..Len(j.a) |-> d[i].v])]
                ELSE [ok |-> FALSE, v |-> ZeroOf(kind)]

DecodeStruct(fields, j) ==
    IF j.t = "null" THEN [ok |-> TRUE, v |-> ZeroStruct(fields)]
    ELSE IF j.t # "obj" THEN [ok |-> FALSE, v |-> ZeroStruct(fields)]
    ELSE LET idx == 1..Len(fields)
             d == [i \in idx |->
                     LET k == FindKey(j.o, fields[i].key)
                     IN  IF k = "" THEN [ok |-> TRUE, v |-> ZeroOf(fields[i].kind)]
                         ELSE DecodeValue(fields[i].kind, j.o[k])]
         IN  [ok |-> \A i \in idx : d[i].ok,
              v |-> [n \in {fields[i].name : i \in idx} |->
                       d[CHOOSE i \in idx : fields[i].name = n].v]]

\* Response bodies: no bytes at all, bytes that are not JSON, a JSON text.
AbsentBody == [b |-> "absent"]
GarbageBody == [b |-> "garbage"]
JsonBody(j) == [b |-> "json", j |-> j]

\* json.NewDecoder(body).Decode(&dst): [ok, v, cause].
DecodeBody(fields, body) ==
    CASE body.b = "absent" -> [ok |-> FALSE, v |-> ZeroStruct(fields), cause |-> "EOF"]
      [] body.b = "garbage" ->
           [ok |-> FALSE, v |-> ZeroStruct(fields), cause |-> "invalid character"]
      [] OTHER ->
           LET d == DecodeStruct(fields, body.j)
           IN  [ok |-> d.ok, v |-> d.v,
                cause |-> IF d.ok THEN "" ELSE "json: cannot unmarshal"]

(* ------------------------- Client and New ----------------------------- *)

baseURL == "https://api.exa.ai"

\* Seconds of the default executor's Timeout.
DefaultTimeout == 30

WithHTTPClient(h) == [opt |-> "WithHTTPClient", httpClient |-> h]
WithBaseURL(url) == [opt |-> "WithBaseURL", url |-> url]

\* An Option applied to the client under construction.
ApplyOption(c, o) ==
    IF o.opt = "WithBaseURL" THEN [c EXCEPT !.baseURL = o.url]
    ELSE [c EXCEPT !.httpClient = o.httpClient]

RECURSIVE ApplyOptions(_, _)
ApplyOptions(c, opts) ==
    IF opts = <<>> THEN c ELSE ApplyOptions(ApplyOption(c, Head(opts)), Tail(opts))

New(apiKey, opts) ==
    ApplyOptions([apiKey |-> apiKey,
                  baseURL |-> baseURL,
                  httpClient |-> [Timeout |-> DefaultTimeout]], opts)

(* ----------------------------- errors --------------------------------- *)

\* An error value: its text and the error it wraps ("" when it wraps none).
NilErr == [nilerr |-> TRUE, text |-> "", cause |-> ""]
Errorf(text, cause) == [nilerr |-> FALSE, text |-> text, cause |-> cause]

(* ------------------------ net/http: requests -------------------------- *)

CanonicalTable == [x \in {"x-api-key"} |-> "X-Api-Key"]
CanonicalHeaderKey(k) == IF k \in DOMAIN CanonicalTable THEN CanonicalTable[k] ELSE k

HeaderSet(h, k, v) ==
    [x \in DOMAIN h \cup {CanonicalHeaderKey(k)} |->
        IF x = CanonicalHeaderKey(k) THEN v ELSE h[x]]

HeaderGet(h, k) ==
    IF CanonicalHeaderKey(k) \in DOMAIN h THEN h[CanonicalHeaderKey(k)] ELSE ""

Paths == {"/search", "/findSimilar", "/contents", "/answer", "/context"}

\* Base URLs of the inputs that url.Parse rejects (missing protocol scheme).
MalformedBaseURLs == {":bad"}

UrlParseOk(u) == ~ \E b \in MalformedBaseURLs, p \in Paths : u = b \o p

\* http.NewRequestWithContext: [ok, req]. The request carries the caller's
\* context; it fails when the URL does not parse.
NewRequestWithContext(rctx, method, url, body) ==
    [ok |-> UrlParseOk(url),
     req |-> [ctx |-> rctx, method |-> method, url |-> url,
              header |-> <<>>, body |-> body]]

NoReq == [method |-> ""]
NoDoRet == [k |-> "none"]
Response(status, body) == [k |-> "resp", status |-> status, body |-> body]
\* The error of httpClient.Do: a *url.Error naming the request and wrapping
\* the cause.
DoError(r, cause) ==
    [k |-> "err", cause |-> cause,
     text |-> "Post \"" \o r.url \o "\": " \o cause]

(* --------------------------- Client.do -------------------------------- *)

\* doBuild with the package constant baseURL in place of c.baseURL.
doBuildConstBase(c, rctx, method, path, body) ==
    LET m == MarshalStruct(body.fields, body.rec)
        r == NewRequestWithContext(rctx, method, baseURL \o path, m.json)
    IN  IF ~m.ok
        THEN [err |-> Errorf("failed to marshal request body: json: unsupported type: chan int",
                             "json: unsupported type: chan int"), req |-> NoReq]
        ELSE IF ~r.ok
        THEN [err |-> Errorf("failed to create request: parse \"" \o r.req.url
                                \o "\": missing protocol scheme",
                             "missing protocol scheme"), req |-> NoReq]
        ELSE [err |-> NilErr,
              req |-> [r.req EXCEPT !.header =
                         HeaderSet(HeaderSet(HeaderSet(r.req.header,
                             "Content-Type", "application/json"),
                             "x-api-key", c.apiKey),
                             "User-Agent", "exa-go-client/1.0")]]

\* doBuild with a request that is not bound to the caller's context.
doBuildBackground(c, rctx, method, path, body) ==
    LET m == MarshalStruct(body.fields, body.rec)
        r == NewRequestWithContext("background", method, c.baseURL \o path, m.json)
    IN  IF ~m.ok
        THEN [err |-> Errorf("failed to marshal request body: json: unsupported type: chan int",
                             "json: unsupported type: chan int"), req |-> NoReq]
        ELSE IF ~r.ok
        THEN [err |-> Errorf("failed to create request: parse \"" \o r.req.url
                                \o "\": missing protocol scheme",
                             "missing protocol scheme"), req |-> NoReq]
        ELSE [err |-> NilErr,
              req |-> [r.req EXCEPT !.header =
                         HeaderSet(HeaderSet(HeaderSet(r.req.header,
                             "Content-Type", "application/json"),
                             "x-api-key", c.apiKey),
                             "User-Agent", "exa-go-client/1.0")]]

\* The body argument of do when the caller passes nil, and the request's
\* body then: nothing is marshalled and the request carries no body.
NoBody == [nobody |-> TRUE]
NoBodyJson == [t |-> "none"]

\* do, up to the call of httpClient.Do: [err, req]. err is nil when the
\* request was built and handed to the executor.
doBuild(c, rctx, method, path, body) ==
    LET m == IF body = NoBody THEN [ok |-> TRUE, json |-> NoBodyJson]
             ELSE MarshalStruct(body.fields, body.rec)
        r == NewRequestWithContext(rctx, method, c.baseURL \o path, m.json)
    IN  IF ~m.ok
        THEN [err |-> Errorf("failed to marshal request body: json: unsupported type: chan int",
                             "json: unsupported type: chan int"), req |-> NoReq]
        ELSE IF ~r.ok
        THEN [err |-> Errorf("failed to create request: parse \"" \o r.req.url
                                \o "\": missing protocol scheme",
                             "missing protocol scheme"), req |-> NoReq]
        ELSE [err |-> NilErr,
              req |-> [r.req EXCEPT !.header =
                         HeaderSet(HeaderSet(HeaderSet(r.req.header,
                             "Content-Type", "application/json"),
                             "x-api-key", c.apiKey),
                             "User-Agent", "exa-go-client/1.0")]]

\* StatusError with the test of the decode error inverted.
StatusErrorInverted(resp) ==
    LET d == DecodeBody(errRespFields, resp.body)
    IN  IF d.ok
        THEN Errorf("api request failed with status " \o ToString(resp.status), "")
        ELSE Errorf("api error: " \o d.v.Message \o " (status " \o ToString(resp.status) \o ")", "")

\* The error of a response with status >= 400.
StatusError(resp) ==
    LET d == DecodeBody(errRespFields, resp.body)
    IN  IF ~d.ok
        THEN Errorf("api request failed with status " \o ToString(resp.status), "")
        ELSE Errorf("api error: " \o d.v.Message \o " (status " \o ToString(resp.status) \o ")", "")

\* doFinish that takes every status outside 2xx for an error.
doFinishOnly2xx(dr, dst) ==
    IF dr.k = "err"
    THEN [err |-> Errorf("failed to execute request: " \o dr.text, dr.cause), v |-> GoNil]
    ELSE IF dr.status < 200 \/ dr.status >= 300
    THEN [err |-> StatusError(dr), v |-> GoNil]
    ELSE IF ~dst.nil
    THEN LET d == DecodeBody(dst.fields, dr.body)
         IN  IF ~d.ok
             THEN [err |-> Errorf("failed to decode response: " \o d.cause, d.cause),
                   v |-> d.v]
             ELSE [err |-> NilErr, v |-> d.v]
    ELSE [err |-> NilErr, v |-> GoNil]

\* do, from the return of httpClient.Do: [err, v]. dst is the destination:
\* [nil |-> TRUE] when the caller passes none, else the fields to decode.
doFinish(dr, dst) ==
    IF dr.k = "err"
    THEN [err |-> Errorf("failed to execute request: " \o dr.text, dr.cause), v |-> GoNil]
    ELSE IF dr.status >= 400
    THEN [err |-> StatusError(dr), v |-> GoNil]
    ELSE IF ~dst.nil
    THEN LET d == DecodeBody(dst.fields, dr.body)
         IN  IF ~d.ok
             THEN [err |-> Errorf("failed to decode response: " \o d.cause, d.cause),
                   v |-> d.v]
             ELSE [err |-> NilErr, v |-> d.v]
    ELSE [err |-> NilErr, v |-> GoNil]

(* ------------------------- the five operations ------------------------ *)

Ops == {"Search", "FindSimilar", "GetContents", "Answer", "Context"}

NoDst == [nil |-> TRUE]
Dst(fields) == [nil |-> FALSE, fields |-> fields]

\* The resource path an operation posts to.
OpPath(op) ==
    CASE op = "Search" -> "/search"
      [] op = "FindSimilar" -> "/findSimilar"
      [] op = "GetContents" -> "/contents"
      [] op = "Answer" -> "/answer"
      [] op = "Context" -> "/context"

\* ContextBody that sets the default whatever the caller passed.
ContextBodyAlwaysDynamic(c) ==
    [fields |-> ContextOptionsFields,
     rec |-> [Query |-> c.query, TokensNum |-> IfaceString("dynamic")]]

\* The request struct of Context: a nil tokensNum becomes "dynamic".
ContextBody(c) ==
    [fields |-> ContextOptionsFields,
     rec |-> [Query |-> c.query,
              TokensNum |-> IF c.tokensNum = GoNil THEN IfaceString("dynamic")
                            ELSE c.tokensNum]]

\* The request struct an operation builds from its arguments.
OpBody(c) ==
    CASE c.op = "Search" ->
           [fields |-> searchRequestFields, rec |-> [Query |-> c.query] @@ c.opts]
      [] c.op = "FindSimilar" ->
           [fields |-> findSimilarRequestFields, rec |-> [URL |-> c.url] @@ c.opts]
      [] c.op = "GetContents" ->
           [fields |-> getContentsRequestFields, rec |-> [IDs |-> c.ids] @@ c.opts]
      [] c.op = "Answer" ->
           [fields |-> AnswerOptionsFields, rec |-> [Query |-> c.query, Text |-> TRUE]]
      [] c.op = "Context" -> ContextBody(c)

\* The struct an operation decodes the response into.
OpDst(op) ==
    CASE op \in {"Search", "FindSimilar"} -> Dst(SearchResponseFields)
      [] op = "GetContents" -> Dst(GetContentsResponseFields)
      [] op = "Answer" -> Dst(answerResponseFields)
      [] op = "Context" -> Dst(ContextResponseFields)

\* Reshape that leaves RequestID out of the copy.
ReshapeDropRequestID(op, v) ==
    IF op = "Answer"
    THEN [Answer |-> v.Answer, Citations |-> v.Citations, RequestID |-> ""]
    ELSE v

\* The value an operation returns for the decoded struct: Answer copies
\* the wire struct into the public AnswerResponse, the others return it.
Reshape(op, v) ==
    IF op = "Answer"
    THEN [Answer |-> v.Answer, Citations |-> v.Citations, RequestID |-> v.RequestID]
    ELSE v

\* OpReturn in which Answer returns its struct beside the error.
OpReturnKeepResult(op, d) ==
    IF ~d.err.nilerr
    THEN [result |-> IF op = "Answer" THEN Ptr(ZeroStruct(answerResponseFields)) ELSE GoNil,
          err |-> d.err]
    ELSE [result |-> Ptr(Reshape(op, d.v)), err |-> NilErr]

\* What an operation returns for do's outcome d = [err, v]: (nil, err) or
\* (&result, nil).
OpReturn(op, d) ==
    IF ~d.err.nilerr THEN [result |-> GoNil, err |-> d.err]
    ELSE [result |-> Ptr(Reshape(op, d.v)), err |-> NilErr]

NoRet == [result |-> GoNil, err |-> NilErr, none |-> TRUE]
NoCall == [op |-> "none"]

(* ------------------------------ inputs -------------------------------- *)

\* One value that is not the zero value, per kind of option field.
SampleOf(kind) ==
    CASE kind = "int" -> 5
      [] kind = "string" -> "neural"
      [] kind = "bool" -> TRUE
      [] kind = "[]string" -> GoSlice(<<"example.com">>)
      [] kind = "*bool" -> Ptr(FALSE)
      [] kind = "*TextOptions" -> Ptr([IncludeHtmlTags |-> FALSE, MaxCharacters |-> 1000])
      [] kind = "*HighlightOptions" -> Ptr(ZeroStruct(HighlightOptionsFields))
      [] kind = "*SummaryOptions" -> Ptr([Query |-> "summary query"])
      [] kind = "*ContentsOptions" ->
           Ptr([ZeroStruct(ContentsOptionsFields) EXCEPT
                  !.Text = Ptr(ZeroStruct(TextOptionsFields))])

\* The option structs in which the caller set at most k fields.
RECURSIVE OptionsUpTo(_, _)
OptionsUpTo(fields, k) ==
    IF k = 0 THEN {ZeroStruct(fields)}
    ELSE LET P == OptionsUpTo(fields, k - 1)
         IN  P \cup {[o EXCEPT ![fields[i].name] = SampleOf(fields[i].kind)] :
                       o \in P, i \in 1..Len(fields)}

TokensNumInputs ==
    {GoNil, IfaceString("dynamic"), IfaceInt(5000), IfaceInt(0), IfaceChan}

\* The calls of the sequential specification.
AllArgs ==
    {[op |-> "Search", query |-> "test query", opts |-> o] :
        o \in OptionsUpTo(SearchOptionsFields, MaxSet)}
    \cup {[op |-> "FindSimilar", url |-> "https://example.com", opts |-> o] :
        o \in OptionsUpTo(FindSimilarOptionsFields, MaxSet)}
    \cup {[op |-> "GetContents", ids |-> ids, opts |-> o] :
        ids \in {NilSlice, GoSlice(<<"https://example.com/article1">>)},
        o \in OptionsUpTo(GetContentsOptionsFields, MaxSet)}
    \cup {[op |-> "Answer", query |-> "What is the answer?"]}
    \cup {[op |-> "Context", query |-> "code query", tokensNum |-> tn] :
        tn \in TokensNumInputs}

\* The calls of the concurrent specification: one per operation.
FewArgs ==
    {[op |-> "Search", query |-> "test query", opts |-> ZeroStruct(SearchOptionsFields)],
     [op |-> "FindSimilar", url |-> "https://example.com",
      opts |-> ZeroStruct(FindSimilarOptionsFields)],
     [op |-> "GetContents", ids |-> GoSlice(<<"https://example.com/article1">>),
      opts |-> ZeroStruct(GetContentsOptionsFields)],
     [op |-> "Answer", query |-> "What is the answer?"],
     [op |-> "Context", query |-> "code query", tokensNum |-> GoNil]}

WireResult == JObj([id |-> JStr("1"), url |-> JStr("https://example.com"),
                    title |-> JStr("Example")])

ResultListBody ==
    JsonBody(JObj([requestId |-> JStr("test-req-id"), results |-> JArr(<<WireResult>>)]))

AnswerBody ==
    JsonBody(JObj([answer |-> JStr("The answer is 42"),
                   citations |-> JArr(<<JObj([url |-> JStr("https://hitchhikers.guide"),
                                              title |-> JStr("Hitchhiker's Guide")])>>),
                   requestId |-> JStr("ans-id")]))

ContextBodyJson ==
    JsonBody(JObj([response |-> JStr("some code"), requestId |-> JStr("ctx-id"),
                   resultsCount |-> JNum(3), costDollars |-> JNum(1)]))

MessageBody == JsonBody(JObj([message |-> JStr("invalid request")]))

Bodies ==
    {AbsentBody, GarbageBody, JsonBody(JNull), JsonBody(EmptyObj), JsonBody(JArr(<<>>)),
     MessageBody,
     JsonBody(JObj([message |-> JNum(5)])),
     JsonBody(JObj([message |-> JNull])),
     JsonBody(JObj([Message |-> JStr("denied")])),
     JsonBody(JObj([requestId |-> JNum(7)])),
     ResultListBody, AnswerBody, ContextBodyJson}

Statuses == {200, 399, 400, 500}

AllResponses == {Response(st, b) : st \in Statuses, b \in Bodies}

FewResponses == {Response(200, AnswerBody), Response(400, MessageBody)}

\* The statuses of the dispatcher's specification: 1xx and 3xx beside the
\* others.
DoStatuses == {101, 200, 304, 399, 400, 500}

DoResponses == {Response(st, b) : st \in DoStatuses, b \in Bodies}

\* Direct calls of do: with and without a body, with and without a
\* destination.
DoArgs ==
    {[op |-> "do", method |-> "POST", path |-> "/answer", body |-> b, dst |-> d] :
        b \in {NoBody,
                [fields |-> AnswerOptionsFields,
                 rec |-> [Query |-> "What is the answer?", Text |-> TRUE]]},
        d \in {NoDst, Dst(SearchResponseFields), Dst(answerResponseFields),
                Dst(ContextResponseFields)}}

ApiKeys == {"test-key", ""}

OptionLists ==
    {<<>>, <<WithBaseURL("http://127.0.0.1:8080")>>, <<WithBaseURL(":bad")>>,
     <<WithBaseURL("http://127.0.0.1:8080"), WithHTTPClient([Timeout |-> 0])>>}

(* ------------------------------ state --------------------------------- *)

\* client : the Client that New returned, shared by every caller
\* call   : per caller, the operation called and its arguments
\* ctx    : per caller, the state of the context it passed
\* pc     : per caller, "idle", "inflight" (inside httpClient.Do),
\*          "returned" (Do has returned) or "done" (the operation returned)
\* req    : per caller, the request handed to httpClient.Do
\* doRet  : per caller, what httpClient.Do returned
\* ret    : per caller, what the operation returned
\* nDo    : per caller, how many times httpClient.Do was called

Init ==
    /\ client \in {New(k, o) : k \in ApiKeys, o \in OptionLists}
    /\ call = [i \in Calls |-> NoCall]
    /\ ctx = [i \in Calls |-> "live"]
    /\ pc = [i \in Calls |-> "idle"]
    /\ req = [i \in Calls |-> NoReq]
    /\ doRet = [i \in Calls |-> NoDoRet]
    /\ ret = [i \in Calls |-> NoRet]
    /\ nDo = [i \in Calls |-> 0]

\* The executor has seen that the context of caller i's request is done.
ContextDone(i) == req[i].ctx = "caller" /\ ctx[i] # "live"

\* Start that appends the path to the client's base URL in place.
StartWritesClient(i, A) ==
    /\ pc[i] = "idle"
    /\ \E a \in A :
         LET b == doBuild(client, "caller", "POST", OpPath(a.op), OpBody(a))
         IN  /\ call' = [call EXCEPT ![i] = a]
             /\ client' = [client EXCEPT !.baseURL = client.baseURL \o OpPath(a.op)]
             /\ IF b.err.nilerr
                THEN /\ req' = [req EXCEPT ![i] = b.req]
                     /\ nDo' = [nDo EXCEPT ![i] = nDo[i] + 1]
                     /\ pc' = [pc EXCEPT ![i] = "inflight"]
                     /\ ret' = ret
                ELSE /\ ret' = [ret EXCEPT ![i] = OpReturn(a.op, [err |-> b.err, v |-> GoNil])]
                     /\ pc' = [pc EXCEPT ![i] = "done"]
                     /\ UNCHANGED <<req, nDo>>
    /\ UNCHANGED <<ctx, doRet>>

\* Caller i calls an operation with arguments a: the operation builds its
\* request struct and calls do, which marshals it, builds the request and
\* calls httpClient.Do, or returns the error of the stage that failed.
Start(i, A) ==
    /\ pc[i] = "idle"
    /\ \E a \in A :
         LET b == doBuild(client, "caller", "POST", OpPath(a.op), OpBody(a))
         IN  /\ call' = [call EXCEPT ![i] = a]
             /\ IF b.err.nilerr
                THEN /\ req' = [req EXCEPT ![i] = b.req]
                     /\ nDo' = [nDo EXCEPT ![i] = nDo[i] + 1]
                     /\ pc' = [pc EXCEPT ![i] = "inflight"]
                     /\ ret' = ret
                ELSE /\ ret' = [ret EXCEPT ![i] = OpReturn(a.op, [err |-> b.err, v |-> GoNil])]
                     /\ pc' = [pc EXCEPT ![i] = "done"]
                     /\ UNCHANGED <<req, nDo>>
    /\ UNCHANGED <<client, ctx, doRet>>

\* The caller cancels the context it passed.
Cancel(i) ==
    /\ pc[i] # "done"
    /\ ctx[i] = "live"
    /\ ctx' = [ctx EXCEPT ![i] = "canceled"]
    /\ UNCHANGED <<client, call, pc, req, doRet, ret, nDo>>

\* The deadline of the context the caller passed expires.
DeadlineExpire(i) ==
    /\ pc[i] # "done"
    /\ ctx[i] = "live"
    /\ ctx' = [ctx EXCEPT ![i] = "deadline"]
    /\ UNCHANGED <<client, call, pc, req, doRet, ret, nDo>>

\* httpClient.Do returns the server's response to caller i's request.
Respond(i, R) ==
    /\ pc[i] = "inflight"
    /\ ~ContextDone(i)
    /\ \E r \in R : doRet' = [doRet EXCEPT ![i] = r]
    /\ pc' = [pc EXCEPT ![i] = "returned"]
    /\ UNCHANGED <<client, call, ctx, req, ret, nDo>>

\* httpClient.Do fails: the connection is refused.
ConnFail(i) ==
    /\ pc[i] = "inflight"
    /\ ~ContextDone(i)
    /\ doRet' = [doRet EXCEPT ![i] = DoError(req[i], "connect: connection refused")]
    /\ pc' = [pc EXCEPT ![i] = "returned"]
    /\ UNCHANGED <<client, call, ctx, req, ret, nDo>>

\* httpClient.Do fails: the executor's own Timeout has passed.
ClientTimeout(i) ==
    /\ pc[i] = "inflight"
    /\ ~ContextDone(i)
    /\ client.httpClient.Timeout > 0
    /\ doRet' = [doRet EXCEPT ![i] = DoError(req[i], "context deadline exceeded (Client.Timeout exceeded while awaiting headers)")]
    /\ pc' = [pc EXCEPT ![i] = "returned"]
    /\ UNCHANGED <<client, call, ctx, req, ret, nDo>>

\* httpClient.Do fails: the context of the request is done, and Do returns
\* the context's error without waiting for the response.
ContextAbort(i) ==
    /\ pc[i] = "inflight"
    /\ ContextDone(i)
    /\ doRet' = [doRet EXCEPT ![i] =
                   DoError(req[i], IF ctx[i] = "canceled" THEN "context canceled"
                                   ELSE "context deadline exceeded")]
    /\ pc' = [pc EXCEPT ![i] = "returned"]
    /\ UNCHANGED <<client, call, ctx, req, ret, nDo>>

\* Finish that calls the executor once more after a transport error.
FinishRetry(i) ==
    /\ pc[i] = "returned"
    /\ IF doRet[i].k = "err" /\ nDo[i] < 2
       THEN /\ nDo' = [nDo EXCEPT ![i] = nDo[i] + 1]
            /\ doRet' = [doRet EXCEPT ![i] = NoDoRet]
            /\ pc' = [pc EXCEPT ![i] = "inflight"]
            /\ ret' = ret
       ELSE /\ ret' = [ret EXCEPT ![i] =
                         OpReturn(call[i].op, doFinish(doRet[i], OpDst(call[i].op)))]
            /\ pc' = [pc EXCEPT ![i] = "done"]
            /\ UNCHANGED <<doRet, nDo>>
    /\ UNCHANGED <<client, call, ctx, req>>

\* do goes on from the return of httpClient.Do, and the operation returns.
Finish(i) ==
    /\ pc[i] = "returned"
    /\ ret' = [ret EXCEPT ![i] = OpReturn(call[i].op, doFinish(doRet[i], OpDst(call[i].op)))]
    /\ pc' = [pc EXCEPT ![i] = "done"]
    /\ UNCHANGED <<client, call, ctx, req, doRet, nDo>>

\* One caller, every input.
Next ==
    \/ Start(1, AllArgs)
    \/ Cancel(1)
    \/ DeadlineExpire(1)
    \/ Respond(1, AllResponses)
    \/ ConnFail(1)
    \/ ClientTimeout(1)
    \/ ContextAbort(1)
    \/ Finish(1)

Spec == Init /\ [][Next]_vars

\* One caller, one call per operation, every response.
NextCancel ==
    \/ Start(1, FewArgs)
    \/ Cancel(1)
    \/ DeadlineExpire(1)
    \/ Respond(1, AllResponses)
    \/ ConnFail(1)
    \/ ClientTimeout(1)
    \/ ContextAbort(1)
    \/ Finish(1)

\* The executor returns once the context of its request is done, and a
\* call whose httpClient.Do has returned runs on to its return.
FairSpec ==
    Init /\ [][NextCancel]_vars /\ WF_vars(ContextAbort(1)) /\ WF_vars(Finish(1))

\* NumCalls callers share the client, in every interleaving.
NextConc ==
    \E i \in Calls :
        \/ Start(i, FewArgs)
        \/ Cancel(i)
        \/ Respond(i, FewResponses)
        \/ ConnFail(i)
        \/ ContextAbort(i)
        \/ Finish(i)

\* The callers share a client built with a custom base URL.
InitConc == Init /\ client = New("test-key", <<WithBaseURL("http://127.0.0.1:8080")>>)

SpecConc == InitConc /\ [][NextConc]_vars

\* Caller i calls do itself, with arguments a: do marshals the body if there
\* is one, builds the request and calls httpClient.Do, or returns the error
\* of the stage that failed.
DoStart(i, A) ==
    /\ pc[i] = "idle"
    /\ \E a \in A :
         LET b == doBuild(client, "caller", a.method, a.path, a.body)
         IN  /\ call' = [call EXCEPT ![i] = a]
             /\ IF b.err.nilerr
                THEN /\ req' = [req EXCEPT ![i] = b.req]
                     /\ nDo' = [nDo EXCEPT ![i] = nDo[i] + 1]
                     /\ pc' = [pc EXCEPT ![i] = "inflight"]
                     /\ ret' = ret
                ELSE /\ ret' = [ret EXCEPT ![i] = [result |-> GoNil, err |-> b.err]]
                     /\ pc' = [pc EXCEPT ![i] = "done"]
                     /\ UNCHANGED <<req, nDo>>
    /\ UNCHANGED <<client, ctx, doRet>>

\* do goes on from the return of httpClient.Do and returns its error;
\* result holds what do left in the caller's destination.
DoFinish(i) ==
    /\ pc[i] = "returned"
    /\ LET d == doFinish(doRet[i], call[i].dst)
       IN  ret' = [ret EXCEPT ![i] = [result |-> d.v, err |-> d.err]]
    /\ pc' = [pc EXCEPT ![i] = "done"]
    /\ UNCHANGED <<client, call, ctx, req, doRet, nDo>>

\* One caller of the dispatcher itself.
NextDo ==
    \/ DoStart(1, DoArgs)
    \/ Cancel(1)
    \/ DeadlineExpire(1)
    \/ Respond(1, DoResponses)
    \/ ConnFail(1)
    \/ ClientTimeout(1)
    \/ ContextAbort(1)
    \/ DoFinish(1)

SpecDo == Init /\ [][NextDo]_vars

(* ------------------------------ claims -------------------------------- *)

Done(i) == pc[i] = "done"
GotResponse(i) == Done(i) /\ doRet[i].k = "resp"

HasStringMessage(body) ==
    /\ body.b = "json"
    /\ body.j.t = "obj"
    /\ "message" \in DOMAIN body.j.o
    /\ body.j.o["message"].t = "str"

\* C1: for every operation, a response with status >= 400 whose body is a
\* JSON object with a "message" string m makes the call fail with the error
\* text "api error: <m> (status <code>)"; for status 400 and the message
\* "invalid request" that is "api error: invalid request (status 400)".
C1_ApiErrorText ==
    \A i \in Calls :
        (GotResponse(i) /\ doRet[i].status >= 400 /\ HasStringMessage(doRet[i].body)) =>
            /\ ret[i].result = GoNil
            /\ ret[i].err.text =
                 "api error: " \o doRet[i].body.j.o["message"].s
                    \o " (status " \o ToString(doRet[i].status) \o ")"
            /\ (doRet[i].status = 400 /\ doRet[i].body = MessageBody) =>
                 ret[i].err.text = "api error: invalid request (status 400)"

C1_Witness ==
    \E i \in Calls :
        /\ GotResponse(i) /\ call[i].op = "Search"
        /\ doRet[i] = Response(400, MessageBody)
        /\ ret[i].err.text = "api error: invalid request (status 400)"

\* A body that is absent, not JSON, or JSON with no "message" field.
MessageLess(body) ==
    \/ body.b \in {"absent", "garbage"}
    \/ /\ body.b = "json"
       /\ \/ body.j.t # "obj"
          \/ /\ body.j.t = "obj"
             /\ \A k \in DOMAIN body.j.o : Fold(k) # "message"

\* C2: for every operation, a response with status >= 400 whose body is
\* absent, not JSON, or JSON without a "message" field makes the call fail
\* with the error text "api request failed with status <code>".
C2_StatusOnlyError ==
    \A i \in Calls :
        (GotResponse(i) /\ doRet[i].status >= 400 /\ MessageLess(doRet[i].body)) =>
            ret[i].err.text = "api request failed with status " \o ToString(doRet[i].status)

\* C3: every call returns either a result with a nil error or a nil result
\* with an error, never both and never neither, whichever stage failed.
C3_ResultXorError ==
    \A i \in Calls :
        Done(i) =>
            \/ ret[i].result # GoNil /\ ret[i].err.nilerr
            \/ ret[i].result = GoNil /\ ~ret[i].err.nilerr

C3_Witness ==
    \E i \in Calls :
        /\ GotResponse(i) /\ doRet[i].status = 200 /\ doRet[i].body = GarbageBody
        /\ call[i].op = "Answer"
        /\ ret[i].result = GoNil
        /\ ret[i].err.text = "failed to decode response: invalid character"

FixedPath ==
    [Search |-> "/search", FindSimilar |-> "/findSimilar", GetContents |-> "/contents",
     Answer |-> "/answer", Context |-> "/context"]

\* C4: every request an operation hands to the executor is a POST to the
\* client's base URL followed by the operation's resource path, and carries
\* the header x-api-key with the API key given to New.
C4_RequestShape ==
    \A i \in Calls :
        req[i] # NoReq =>
            /\ req[i].method = "POST"
            /\ req[i].url = client.baseURL \o FixedPath[call[i].op]
            /\ HeaderGet(req[i].header, "x-api-key") = client.apiKey
            /\ "X-Api-Key" \in DOMAIN req[i].header

C4_Witness ==
    \E i \in Calls :
        /\ call[i].op = "FindSimilar"
        /\ req[i] # NoReq
        /\ req[i].url = "http://127.0.0.1:8080/findSimilar"
        /\ req[i].header["X-Api-Key"] = "test-key"

\* The causes of the two failures that precede the call of the executor.
BuildFailureCauses == {"json: unsupported type: chan int", "missing protocol scheme"}

\* C5 as stated: every call that has returned called the executor exactly
\* once.
C5_ExactlyOneRequest ==
    \A i \in Calls : Done(i) => nDo[i] = 1

\* C5, amended: a call hands at most one request to the executor and never
\* a second one, whatever the first one's outcome; a call that has returned
\* issued exactly one, unless marshalling the body or building the request
\* failed, and then it issued none.
C5_AtMostOneRequest ==
    \A i \in Calls :
        /\ nDo[i] <= 1
        /\ Done(i) => (nDo[i] = 0 <=> ret[i].err.cause \in BuildFailureCauses)
        /\ (Done(i) /\ doRet[i] # NoDoRet) => nDo[i] = 1

C5_Witness ==
    \E i \in Calls :
        /\ Done(i) /\ nDo[i] = 1
        /\ doRet[i].k = "err" /\ doRet[i].cause = "connect: connection refused"
        /\ ret[i].err.cause = "connect: connection refused"

\* C6: when the caller's context is cancelled, or its deadline expires,
\* while the request is in flight, the call eventually returns a nil result
\* and the error "failed to execute request: ..." that wraps the context's
\* error, with no response and no executor timeout needed for it.
C6_CancelReturnsTransportError ==
    \A i \in {1} :
        (pc[i] = "inflight" /\ ctx[i] # "live") ~>
            /\ Done(i)
            /\ ret[i].result = GoNil
            /\ ret[i].err.cause = (IF ctx[i] = "canceled" THEN "context canceled"
                                   ELSE "context deadline exceeded")
            /\ ret[i].err.text =
                 "failed to execute request: Post \"" \o req[i].url \o "\": "
                    \o ret[i].err.cause

C6_Witness ==
    /\ Done(1) /\ ctx[1] = "canceled" /\ call[1].op = "Search"
    /\ doRet[1].k = "err"
    /\ ret[1].result = GoNil
    /\ ret[1].err.text =
         "failed to execute request: Post \"https://api.exa.ai/search\": context canceled"

\* The outcome of a call as a function of the client's configuration, the
\* call's own arguments and what the executor returned for its own request.
OwnOutcome(c, a, dr) ==
    IF dr = NoDoRet
    THEN OpReturn(a.op, [err |-> doBuild(c, "caller", "POST", OpPath(a.op), OpBody(a)).err,
                         v |-> GoNil])
    ELSE OpReturn(a.op, doFinish(dr, OpDst(a.op)))

\* C7: with any number of callers on one client, in every interleaving, no
\* step writes the client's configuration, a step of one caller leaves
\* every other caller's request, response and outcome as they were, each
\* request is built from its own call's arguments, and each outcome is a
\* function of its own call's arguments and the response to its own request.
C7_CallsIndependent ==
    [][ /\ client' = client
        /\ \A i \in Calls :
             /\ pc'[i] = "inflight" =>
                  req'[i] = doBuild(client, "caller", "POST", OpPath(call'[i].op),
                                    OpBody(call'[i])).req
             /\ pc'[i] = "done" => ret'[i] = OwnOutcome(client, call'[i], doRet'[i])
             /\ pc'[i] # pc[i] =>
                  \A j \in Calls \ {i} :
                      /\ pc'[j] = pc[j] /\ call'[j] = call[j] /\ req'[j] = req[j]
                      /\ doRet'[j] = doRet[j] /\ ret'[j] = ret[j] ]_vars

C7_Witness ==
    /\ Done(1) /\ Done(2)
    /\ call[1].op = "Search" /\ call[2].op = "Answer"
    /\ doRet[1] = Response(400, MessageBody)
    /\ doRet[2] = Response(200, AnswerBody)
    /\ ret[1].err.text = "api error: invalid request (status 400)"
    /\ ret[2].err.nilerr /\ ret[2].result.v.Answer = "The answer is 42"

\* The wire fields of a body, as the Go values they denote.
WireString(o, k) == o[k].s
WireResultsMatch(rs, arr) ==
    /\ ~rs.nilslice
    /\ Len(rs.e) = Len(arr)
    /\ \A n \in 1..Len(arr) :
         /\ "id" \in DOMAIN arr[n].o => rs.e[n].ID = arr[n].o["id"].s
         /\ "url" \in DOMAIN arr[n].o => rs.e[n].URL = arr[n].o["url"].s
         /\ "title" \in DOMAIN arr[n].o => rs.e[n].Title = arr[n].o["title"].s

IsResultArray(j) ==
    j.t = "arr" /\ \A n \in 1..Len(j.a) : j.a[n].t = "obj"
HasString(o, k) == k \in DOMAIN o /\ o[k].t = "str"

\* A body that is well formed for the operation: a JSON object holding the
\* envelope's wire fields with their types.
WellFormed(op, body) ==
    /\ body.b = "json"
    /\ body.j.t = "obj"
    /\ HasString(body.j.o, "requestId")
    /\ CASE op \in {"Search", "FindSimilar", "GetContents"} ->
              "results" \in DOMAIN body.j.o /\ IsResultArray(body.j.o["results"])
         [] op = "Answer" ->
              /\ HasString(body.j.o, "answer")
              /\ "citations" \in DOMAIN body.j.o /\ IsResultArray(body.j.o["citations"])
         [] op = "Context" -> HasString(body.j.o, "response")

\* C8: for every operation, a response with a success status and a well
\* formed body gives a result whose fields equal the body's wire fields:
\* RequestID and Results from requestId and results; for Answer: Answer,
\* Citations and RequestID from answer, citations and requestId; for
\* Context: Response and RequestID from response and requestId.
C8_EnvelopeMatchesWire ==
    \A i \in Calls :
        (/\ GotResponse(i)
         /\ doRet[i].status >= 200 /\ doRet[i].status < 300
         /\ WellFormed(call[i].op, doRet[i].body)) =>
            LET o == doRet[i].body.j.o
                r == ret[i].result.v
            IN  /\ ret[i].err.nilerr
                /\ ret[i].result # GoNil
                /\ r.RequestID = WireString(o, "requestId")
                /\ CASE call[i].op \in {"Search", "FindSimilar", "GetContents"} ->
                          WireResultsMatch(r.Results, o["results"].a)
                     [] call[i].op = "Answer" ->
                          /\ r.Answer = WireString(o, "answer")
                          /\ WireResultsMatch(r.Citations, o["citations"].a)
                     [] call[i].op = "Context" ->
                          r.Response = WireString(o, "response")

C8_Witness ==
    \E i \in Calls :
        /\ GotResponse(i) /\ call[i].op = "Answer"
        /\ doRet[i] = Response(200, AnswerBody)
        /\ ret[i].result.v.Answer = "The answer is 42"
        /\ ret[i].result.v.RequestID = "ans-id"
        /\ ret[i].result.v.Citations.e[1].Title = "Hitchhiker's Guide"

\* C9: Context called with a nil token budget sends "tokensNum":"dynamic";
\* called with the string "dynamic" or an integer it sends that value as
\* tokensNum, never the default in its place.
C9_TokensNumDefault ==
    \A i \in Calls :
        (/\ call[i].op = "Context"
         /\ call[i].tokensNum.go \in {"nil", "string", "int"}
         /\ req[i] # NoReq) =>
            /\ "tokensNum" \in DOMAIN req[i].body.o
            /\ req[i].body.o["tokensNum"] =
                 CASE call[i].tokensNum.go = "nil" -> JStr("dynamic")
                   [] call[i].tokensNum.go = "string" -> JStr(call[i].tokensNum.s)
                   [] call[i].tokensNum.go = "int" -> JNum(call[i].tokensNum.n)

C9_Witness ==
    \E i \in Calls :
        /\ call[i].op = "Context" /\ call[i].tokensNum = GoNil
        /\ req[i] # NoReq
        /\ req[i].body.o["tokensNum"] = JStr("dynamic")
        /\ req[i].body.o["query"] = JStr("code query")

\* The option fields of the three operations that take an options struct.
OptionFields(op) ==
    CASE op = "Search" -> SearchOptionsFields
      [] op = "FindSimilar" -> FindSimilarOptionsFields
      [] op = "GetContents" -> GetContentsOptionsFields

\* Every field of rec that has its zero value has no key in the object o,
\* and so on inside the structs its pointer fields point to.
RECURSIVE OmitsAbsent(_, _, _)
OmitsAbsent(fields, rec, o) ==
    \A n \in 1..Len(fields) :
        LET f == fields[n]
        IN  IF rec[f.name] = ZeroOf(f.kind)
            THEN f.key \notin DOMAIN o
            ELSE f.key \in DOMAIN o =>
                   /\ o[f.key] # JNull
                   /\ f.kind \in {"*TextOptions", "*HighlightOptions", "*SummaryOptions",
                                  "*ContentsOptions"} =>
                        OmitsAbsent(PointeeFields(f.kind), rec[f.name].v, o[f.key].o)

\* C10: in the request body of Search, FindSimilar and GetContents every
\* option field the caller left absent has no key, rather than a null or a
\* zero value; a Search whose options set only NumResults sends no option
\* key but numResults.
C10_AbsentOptionsOmitted ==
    \A i \in Calls :
        (call[i].op \in {"Search", "FindSimilar", "GetContents"} /\ req[i] # NoReq) =>
            /\ OmitsAbsent(OptionFields(call[i].op), call[i].opts, req[i].body.o)
            /\ (call[i].op = "Search" /\
                call[i].opts = [ZeroStruct(SearchOptionsFields) EXCEPT !.NumResults = 5]) =>
                 DOMAIN req[i].body.o = {"query", "numResults"}

C10_Witness ==
    \E i \in Calls :
        /\ call[i].op = "Search"
        /\ call[i].opts = [ZeroStruct(SearchOptionsFields) EXCEPT !.NumResults = 5]
        /\ req[i] # NoReq
        /\ DOMAIN req[i].body.o = {"query", "numResults"}
        /\ req[i].body.o["numResults"] = JNum(5)

\* C11: the dispatcher classifies a response by the one threshold 400. For
\* every status below 400, 1xx and 3xx included, it decodes the body into
\* the caller's destination: it succeeds with the decoded value, or fails
\* with "failed to decode response: ..." wrapping the cause, never with an
\* api error; without a destination it decodes nothing and succeeds. For
\* every status from 400 on it fails with an api error, which wraps nothing.
C11_SingleThreshold ==
    \A i \in Calls :
        (GotResponse(i) /\ call[i].op = "do") =>
            LET body == doRet[i].body
                dst == call[i].dst
            IN  IF doRet[i].status >= 400
                THEN /\ ~ret[i].err.nilerr
                     /\ ret[i].err.cause = ""
                     /\ ret[i].err.text \in
                          {"api request failed with status " \o ToString(doRet[i].status),
                           "api error: " \o DecodeBody(errRespFields, body).v.Message
                              \o " (status " \o ToString(doRet[i].status) \o ")"}
                ELSE IF dst = NoDst
                THEN ret[i].err.nilerr /\ ret[i].result = GoNil
                ELSE IF DecodeBody(dst.fields, body).ok
                THEN /\ ret[i].err.nilerr
                     /\ ret[i].result = DecodeBody(dst.fields, body).v
                ELSE /\ ~ret[i].err.nilerr
                     /\ ret[i].err.cause # ""
                     /\ ret[i].err.text = "failed to decode response: " \o ret[i].err.cause
                     /\ body = AbsentBody => ret[i].err.text = "failed to decode response: EOF"
                     /\ body = GarbageBody =>
                          ret[i].err.cause = "invalid character"

C11_Witness ==
    \E i \in Calls :
        /\ GotResponse(i) /\ call[i].op = "do"
        /\ doRet[i] = Response(304, AbsentBody)
        /\ call[i].dst = Dst(answerResponseFields)
        /\ ret[i].err.text = "failed to decode response: EOF"
        /\ ret[i].err.cause = "EOF"

====
